---- MODULE Spec2Model ----
(***************************************************************************)
(* Agentic PR reviewer: the webhook gate (main.py), the background task    *)
(* process_pr, the retry engine of GitHubClient (github_api/client.py) and *)
(* the three-node review graph (agent/graph.py, agent/nodes.py).           *)
(*                                                                         *)
(* One triggering event is followed from the webhook through its run; two   *)
(* runs for different pull requests are followed side by side in SpecTwo.   *)
(* Optional values (Python's `X | None`) are sequences of length at most   *)
(* one: <<>> is None and <<x>> is x.  Durations are whole seconds.         *)
(***************************************************************************)
EXTENDS Integers, Sequences, FiniteSets, TLC

VARIABLES
    settings,   \* config.Settings: the process-wide, read-only configuration
    handled,    \* number of webhook requests handled so far
    req,        \* the last webhook request handled (None before the first)
    response,   \* the answer github_webhook gave to that request
    task,       \* the background task added by github_webhook (None if none)
    pc,         \* position of the background task
    call,       \* the running logical call of _request_with_retry
    state,      \* the GraphState of the run (None before run_pr_review)
    body,       \* committer_agent's local final_comment (None before it is built)
    stages,     \* graph nodes invoked, in order
    gens,       \* text-generation calls (chain.ainvoke) made, by node, in order
    fetchCalls, \* invocations of get_pr_diff
    postCalls,  \* invocations of post_pr_comment
    comments,   \* comments the hosting platform created on the pull request
    runError,   \* the exception process_pr caught (None if none)
    runs,       \* two tasks running side by side: the locals of each process_pr
    graphStates,\* the GraphState of each of the two runs
    posted      \* the POST requests the platform received from the two runs

vars == <<settings, handled, req, response, task, pc, call, state, body,
          stages, gens, fetchCalls, postCalls, comments, runError,
          runs, graphStates, posted>>

\* the event followed alone, and the pair of runs
oneRunVars == <<handled, req, response, task, pc, call, state, body,
                stages, gens, fetchCalls, postCalls, comments, runError>>
twoRunVars == <<runs, graphStates, posted>>

-----------------------------------------------------------------------------
(* Bounds of the model *)

MaxRetries == 3      \* github_max_retries ranges over 0..MaxRetries
MaxBackoff == 3      \* github_retry_backoff_seconds ranges over 1..MaxBackoff
MaxRequests == 2     \* webhook requests handled before one is accepted
TwoRunRetries == 1   \* github_max_retries when two runs are followed together

(* Program constants *)

RetryMaxBackoffSeconds == 8

-----------------------------------------------------------------------------
(* Optional values *)

None == <<>>
Some(x) == <<x>>
IsNone(o) == Len(o) = 0
IsSome(o) == Len(o) = 1
Val(o) == o[1]

\* Python truthiness of an optional string: None and "" are falsy
TruthyStr(o) == IsSome(o) /\ Val(o) # ""

\* Python truthiness of an optional integer: None and 0 are falsy
TruthyInt(o) == IsSome(o) /\ Val(o) # 0

Min(a, b) == IF a <= b THEN a ELSE b

RECURSIVE Pow2(_)
Pow2(n) == IF n <= 0 THEN 1 ELSE 2 * Pow2(n - 1)

Count(seq, x) == Cardinality({i \in 1..Len(seq) : seq[i] = x})

-----------------------------------------------------------------------------
(* config.Settings *)

SettingsSpace ==
    [ github_webhook_secret : {"s3cret"},
      github_max_retries : 0..MaxRetries,
      github_retry_backoff_seconds : 1..MaxBackoff,
      github_retry_max_backoff_seconds : {RetryMaxBackoffSeconds} ]

-----------------------------------------------------------------------------
(* GitHubClient.verify_webhook_signature                                   *)
(*                                                                         *)
(* A signature header is a sequence of tokens: <<>> is the empty string,   *)
(* <<prefix, rest>> is prefix followed by a hex digest or by text that     *)
(* holds a character outside ASCII.  The HMAC is an ideal one: the digest  *)
(* names its key and its message.  A character outside ASCII is written by *)
(* its code point ("U+00E9").                                              *)

HexDigest(key, msg) == [ascii |-> TRUE, key |-> key, msg |-> msg]

\* text of a header with a character outside ASCII in it
NonAsciiText == [ascii |-> FALSE, text |-> "U+00E9"]

StartsWith(sig, prefix) == Len(sig) >= 1 /\ sig[1] = prefix

\* str.isascii of a signature
IsAscii(sig) == \A i \in 2..Len(sig) : sig[i].ascii

\* what the method does: it returns a bool or raises
ReturnsBool(b) == [raised |-> FALSE, value |-> b]
RaisesTypeError == [raised |-> TRUE, value |-> FALSE]

\* hmac.compare_digest of two str raises TypeError when one of them holds a
\* character outside ASCII
verify_webhook_signature(cfg, payload, signature) ==
    IF Len(signature) = 0 \/ ~StartsWith(signature, "sha256=")
    THEN ReturnsBool(FALSE)
    ELSE LET digest == HexDigest(cfg.github_webhook_secret, payload)
             expected_signature == <<"sha256=", digest>>
         IN  IF ~IsAscii(signature)
             THEN RaisesTypeError
             ELSE ReturnsBool(expected_signature = signature)

-----------------------------------------------------------------------------
(* github_webhook                                                          *)

\* request bodies: one that is no JSON, and JSON objects with the three
\* fields the handler reads
NotJson == [json |-> FALSE, action |-> None, full_name |-> None, number |-> None]

JsonBodies ==
    [ json : {TRUE},
      action : {None, Some("opened"), Some("synchronize"), Some("closed")},
      full_name : {None, Some("octo/repo")},
      number : {None, Some(0), Some(7)} ]

Bodies == {NotJson} \cup JsonBodies

TamperedFrom(b) == IF b = NotJson
                   THEN [NotJson EXCEPT !.json = TRUE]
                   ELSE NotJson

\* X-Hub-Signature-256 headers a sender can attach to a body
SignatureHeaders(cfg, b) ==
    { None,
      Some(<<>>),
      Some(<<"sha1=", HexDigest(cfg.github_webhook_secret, b)>>),
      Some(<<"sha256=", HexDigest(cfg.github_webhook_secret, b)>>),
      Some(<<"sha256=", HexDigest("guess", b)>>),
      Some(<<"sha256=", NonAsciiText>>),
      Some(<<"sha256=", HexDigest(cfg.github_webhook_secret, TamperedFrom(b))>>) }

Events == {None, Some("pull_request"), Some("push")}

Requests(cfg) ==
    UNION { [ x_hub_signature_256 : SignatureHeaders(cfg, b),
              x_github_event : Events,
              payload : {b} ] : b \in Bodies }

\* the pull_request actions that start a run
TriggerActions == {Some("opened"), Some("synchronize")}

\* the answer of github_webhook and the task it adds, as a function of the
\* request
WebhookResult(cfg, r) ==
    LET signature == IF IsSome(r.x_hub_signature_256)
                     THEN Val(r.x_hub_signature_256) ELSE <<>>
        data == r.payload
        verified == verify_webhook_signature(cfg, r.payload, signature)
    IN  IF verified.raised
        THEN [response |-> "500 Internal Server Error", task |-> None]
        ELSE IF ~verified.value
        THEN [response |-> "401 Invalid signature", task |-> None]
        ELSE IF r.x_github_event # Some("pull_request")
        THEN [response |-> "Ignored event", task |-> None]
        ELSE IF ~data.json
        THEN [response |-> "500 Internal Server Error", task |-> None]
        ELSE IF data.action \notin TriggerActions
        THEN [response |-> "Ignored action", task |-> None]
        ELSE IF ~(IsSome(data.full_name) /\ Val(data.full_name) # "")
                \/ ~TruthyInt(data.number)
        THEN [response |-> "400 Missing repository or pull request number",
              task |-> None]
        ELSE [response |-> "Processing",
              task |-> Some([repo_name |-> Val(data.full_name),
                             pr_number |-> Val(data.number)])]

-----------------------------------------------------------------------------
(* GitHubClient._request_with_retry                                        *)

\* status codes the platform answers with
Statuses == {200, 201, 304, 404, 429, 500, 599}

\* exceptions of the transport: httpx.TimeoutException, httpx.NetworkError,
\* and one that is neither (httpx.RemoteProtocolError)
Exceptions == {"TimeoutException", "NetworkError", "RemoteProtocolError"}

\* a header value is a sequence of characters; one outside ASCII is written
\* by its code point: "U+0663" is ARABIC-INDIC DIGIT THREE, "U+FF11" and
\* "U+FF12" are FULLWIDTH DIGIT ONE and TWO, "U+00B2" is SUPERSCRIPT TWO,
\* "U+2460" is CIRCLED DIGIT ONE

\* the characters float() reads as decimal digits (Unicode category Nd)
Decimals == {"0", "1", "2", "3", "4", "5", "6", "7", "8", "9",
             "U+0663", "U+FF11", "U+FF12"}

\* the characters str.isdigit accepts: the decimal digits and the other
\* characters with the property Digit, which float() does not read
Digits == Decimals \cup {"U+00B2", "U+2460"}

DigitValue(ch) ==
    CASE ch = "0" -> 0 [] ch = "1" -> 1 [] ch = "2" -> 2 [] ch = "3" -> 3
      [] ch = "4" -> 4 [] ch = "5" -> 5 [] ch = "6" -> 6 [] ch = "7" -> 7
      [] ch = "8" -> 8 [] ch = "9" -> 9 [] ch = "U+0663" -> 3
      [] ch = "U+FF11" -> 1 [] ch = "U+FF12" -> 2

\* str.isdigit
IsDigit(s) == Len(s) > 0 /\ \A i \in 1..Len(s) : s[i] \in Digits

\* float(s) of a string that passed isdigit raises ValueError when a
\* character of it is no decimal digit
FloatRaises(s) == \E i \in 1..Len(s) : s[i] \notin Decimals

\* float(s) of a string of decimal digits
RECURSIVE ToNumber(_)
ToNumber(s) ==
    IF Len(s) = 0 THEN 0
    ELSE 10 * ToNumber(SubSeq(s, 1, Len(s) - 1)) + DigitValue(s[Len(s)])

\* Retry-After headers: absent, empty, "12", "2s", and the one-character
\* headers U+0663 and U+00B2
RetryAfterHeaders ==
    {None, Some(<<>>), Some(<<"1", "2">>), Some(<<"2", "s">>),
     Some(<<"U+0663">>), Some(<<"U+00B2">>)}

\* what one HTTP attempt can end in; `created` says whether the platform
\* carried the request out (for a POST: created the comment)
ResponseOutcomes ==
    [ kind : {"response"}, status_code : Statuses,
      retry_after : RetryAfterHeaders, exc : {"-"}, created : BOOLEAN ]

ExceptionOutcomes ==
    [ kind : {"exception"}, status_code : {0},
      retry_after : {None}, exc : Exceptions, created : BOOLEAN ]

Is2xx(status_code) == 200 <= status_code /\ status_code <= 299

\* the outcomes the platform and the network can produce for a request: a GET
\* creates nothing; a POST answered 2xx has created the comment, one answered
\* 3xx/4xx has not, one that ended in a 5xx (a gateway answering for a
\* platform that had done the work) or in a transport error (a read timeout,
\* a connection lost before the answer) may have; the answer of a rate limit
\* (429) carries any of the Retry-After headers, a 500 none or "12", every
\* other answer none
Outcomes(method) ==
    { o \in ResponseOutcomes \cup ExceptionOutcomes :
        /\ method = "GET" => ~o.created
        /\ (o.kind = "response" /\ o.status_code < 500)
              => (o.created <=> (method = "POST" /\ Is2xx(o.status_code)))
        /\ (o.kind = "response" /\ o.status_code = 500)
              => o.retry_after \in {None, Some(<<"1", "2">>)}
        /\ (o.kind = "response" /\ o.status_code \notin {429, 500})
              => o.retry_after = None }

\* the test with the lower bound of the 5xx range dropped
is_retryable_status_no_lower_bound(status_code) ==
    status_code = 429 \/ status_code <= 599

\* the test taking every 4xx for retryable, as 429 is
is_retryable_status_all_errors(status_code) ==
    status_code = 429 \/ (400 <= status_code /\ status_code <= 599)

_is_retryable_status(status_code) ==
    status_code = 429 \/ (500 <= status_code /\ status_code <= 599)

\* httpx.Response.raise_for_status raises HTTPStatusError unless 2xx
RaisesForStatus(status_code) == ~Is2xx(status_code)

\* min(retry_backoff_seconds * 2**attempt, retry_max_backoff_seconds)
BackoffDelay(cfg, attempt) ==
    Min(cfg.github_retry_backoff_seconds * Pow2(attempt),
        cfg.github_retry_max_backoff_seconds)

\* lines 68-75 end with a delay, or float() raises ValueError
Delay(seconds) == [raised |-> FALSE, seconds |-> seconds]
DelayRaises == [raised |-> TRUE, seconds |-> 0]

\* the delay with the cap applied to the Retry-After value too
ResponseDelayCapped(cfg, retry_after, attempt) ==
    IF IsSome(retry_after) /\ Len(Val(retry_after)) > 0 /\ IsDigit(Val(retry_after))
    THEN IF FloatRaises(Val(retry_after))
         THEN DelayRaises
         ELSE Delay(Min(ToNumber(Val(retry_after)),
                        cfg.github_retry_max_backoff_seconds))
    ELSE Delay(BackoffDelay(cfg, attempt))

\* the delay chosen after a retryable response
ResponseDelay(cfg, retry_after, attempt) ==
    IF IsSome(retry_after) /\ Len(Val(retry_after)) > 0 /\ IsDigit(Val(retry_after))
    THEN IF FloatRaises(Val(retry_after))
         THEN DelayRaises
         ELSE Delay(ToNumber(Val(retry_after)))
    ELSE Delay(BackoffDelay(cfg, attempt))

\* `attempt >= self.max_retries`
BudgetExhausted(cfg, attempt) == attempt >= cfg.github_max_retries

NoError == [type |-> "-", status_code |-> 0]
HTTPStatusError(status_code) == [type |-> "HTTPStatusError", status_code |-> status_code]
TransportError(exc) == [type |-> exc, status_code |-> 0]
RuntimeError == [type |-> "RuntimeError", status_code |-> 0]
ValueError == [type |-> "ValueError", status_code |-> 0]

NoOutcome == [kind |-> "-", status_code |-> 0, retry_after |-> None,
              exc |-> "-", created |-> FALSE]

\* the statements after the loop: raise last_error if set, else RuntimeError
AfterLoop(c) ==
    [c EXCEPT !.phase = "failed",
              !.error = IF IsSome(c.last_error)
                        THEN TransportError(Val(c.last_error))
                        ELSE RuntimeError,
              !.fell_through = TRUE]

\* the call at the head of `for attempt in range(max_retries + 1)`
LoopHead(cfg, c, attempt) ==
    IF attempt < cfg.github_max_retries + 1
    THEN [c EXCEPT !.attempt = attempt, !.phase = "attempt"]
    ELSE AfterLoop(c)

\* a logical call at its start
NewCall(cfg, method) ==
    LoopHead(cfg,
             [ method |-> method, attempt |-> 0, phase |-> "attempt",
               last_error |-> None, delay |-> 0, response |-> NoOutcome,
               error |-> NoError, fell_through |-> FALSE,
               \* history of the call
               last |-> NoOutcome, n_attempts |-> 0, n_retryable |-> 0,
               n_sleeps |-> 0 ],
             0)

NoCall == [ method |-> "-", attempt |-> 0, phase |-> "idle",
            last_error |-> None, delay |-> 0, response |-> NoOutcome,
            error |-> NoError, fell_through |-> FALSE,
            last |-> NoOutcome, n_attempts |-> 0, n_retryable |-> 0,
            n_sleeps |-> 0 ]

\* The fields last, n_attempts, n_retryable and n_sleeps of a call are its
\* history, kept for the properties: the outcome of the latest attempt, the
\* HTTP attempts made, the attempts that ended in an outcome the retry policy
\* of the design calls retryable, and the calls of sleep.  The code reads none
\* of them.

\* the outcome classes the retry policy names: 429, 5xx, timeout, network error
RetryableOutcome(o) ==
    \/ o.kind = "response" /\ (o.status_code = 429 \/ o.status_code \in 500..599)
    \/ o.kind = "exception" /\ o.exc \in {"TimeoutException", "NetworkError"}

\* the call with the outcome of its attempt entered in its history
Seen(c, o) ==
    [c EXCEPT !.last = [o EXCEPT !.created = FALSE],
              !.n_attempts = @ + 1,
              !.n_retryable = IF RetryableOutcome(o) THEN @ + 1 ELSE @]

\* the loop body with the sleep placed before the budget test
ResponseStepSleepFirst(cfg, c, o) ==
    LET seen == Seen(c, o)
    IN  IF ~_is_retryable_status(o.status_code)
        THEN IF RaisesForStatus(o.status_code)
             THEN [seen EXCEPT !.phase = "failed",
                               !.error = HTTPStatusError(o.status_code)]
             ELSE [seen EXCEPT !.phase = "success",
                               !.response = [o EXCEPT !.created = FALSE]]
        ELSE LET delay == ResponseDelay(cfg, o.retry_after, c.attempt)
             IN  IF delay.raised
                 THEN [seen EXCEPT !.phase = "failed", !.error = ValueError]
                 ELSE IF BudgetExhausted(cfg, c.attempt)
                         /\ RaisesForStatus(o.status_code)
                 THEN [seen EXCEPT !.phase = "failed", !.delay = delay.seconds,
                                   !.n_sleeps = @ + 1,
                                   !.error = HTTPStatusError(o.status_code)]
                 ELSE [seen EXCEPT !.phase = "sleep", !.delay = delay.seconds,
                                   !.n_sleeps = @ + 1]

\* the loop body after client.request returned a response, up to its
\* return, raise or sleep; the ValueError of float(retry_after) is caught
\* by no except clause and leaves the call
ResponseStep(cfg, c, o) ==
    LET seen == Seen(c, o)
    IN  IF ~_is_retryable_status(o.status_code)
        THEN IF RaisesForStatus(o.status_code)
             THEN [seen EXCEPT !.phase = "failed",
                               !.error = HTTPStatusError(o.status_code)]
             ELSE [seen EXCEPT !.phase = "success",
                               !.response = [o EXCEPT !.created = FALSE]]
        ELSE LET delay == ResponseDelay(cfg, o.retry_after, c.attempt)
             IN  IF delay.raised
                 THEN [seen EXCEPT !.phase = "failed", !.error = ValueError]
                 ELSE IF BudgetExhausted(cfg, c.attempt)
                         /\ RaisesForStatus(o.status_code)
                 THEN [seen EXCEPT !.phase = "failed", !.delay = delay.seconds,
                                   !.error = HTTPStatusError(o.status_code)]
                 ELSE [seen EXCEPT !.phase = "sleep", !.delay = delay.seconds,
                                   !.n_sleeps = @ + 1]

\* the except clause retrying a network error at the same attempt index,
\* as a loop that counts only the answered attempts would
ExceptionStepUncharged(cfg, c, o) ==
    LET seen == Seen(c, o)
    IN  IF o.exc \in {"TimeoutException", "NetworkError"}
        THEN [seen EXCEPT !.phase = "sleep",
                          !.attempt = @ - 1,
                          !.delay = BackoffDelay(cfg, c.attempt),
                          !.last_error = Some(o.exc),
                          !.n_sleeps = @ + 1]
        ELSE [seen EXCEPT !.phase = "failed", !.error = TransportError(o.exc)]

\* the loop body after client.request raised: the except clause for a
\* timeout or network error, propagation for any other exception
ExceptionStep(cfg, c, o) ==
    LET seen == Seen(c, o)
    IN  IF o.exc \in {"TimeoutException", "NetworkError"}
        THEN LET delay == BackoffDelay(cfg, c.attempt)
             IN  IF BudgetExhausted(cfg, c.attempt)
                 THEN [seen EXCEPT !.phase = "failed", !.delay = delay,
                                   !.last_error = Some(o.exc),
                                   !.error = TransportError(o.exc)]
                 ELSE [seen EXCEPT !.phase = "sleep", !.delay = delay,
                                   !.last_error = Some(o.exc),
                                   !.n_sleeps = @ + 1]
        ELSE [seen EXCEPT !.phase = "failed", !.error = TransportError(o.exc)]

\* one iteration of the loop body, up to its return, raise or sleep
AttemptStep(cfg, c, o) ==
    IF o.kind = "response"
    THEN ResponseStep(cfg, c, o)
    ELSE ExceptionStep(cfg, c, o)

\* a sleep after which the loop does not go on
SleepStepStuck(cfg, c) == c

\* `await sleep(delay)` returns and the loop goes on
SleepStep(cfg, c) == LoopHead(cfg, c, c.attempt + 1)

-----------------------------------------------------------------------------
(* agent/state.py, agent/nodes.py, agent/graph.py                          *)

\* ReviewResult values the structured generation can return
ReviewResults ==
    { [has_bugs |-> FALSE, issues |-> <<>>, summary |-> "No issues"],
      [has_bugs |-> FALSE, issues |-> <<"low">>, summary |-> "Minor nits"],
      [has_bugs |-> TRUE, issues |-> <<"critical">>, summary |-> "Race in handler"],
      [has_bugs |-> TRUE, issues |-> <<>>, summary |-> "Flagged"] }

\* chain.ainvoke of the reviewer (structured output): raises, returns None
\* (the answer held no structured result), or returns a ReviewResult
ReviewGenerations ==
    {[raised |-> TRUE, result |-> None], [raised |-> FALSE, result |-> None]}
      \cup {[raised |-> FALSE, result |-> Some(r)] : r \in ReviewResults}

\* chain.ainvoke of the patcher: raises, or returns text (possibly empty)
PatchGenerations ==
    {[raised |-> TRUE, content |-> ""]}
      \cup {[raised |-> FALSE, content |-> c] : c \in {"", "patch proposal"}}

\* chain.ainvoke of the committer: raises, or returns text
CommentGenerations ==
    {[raised |-> TRUE, content |-> ""],
     [raised |-> FALSE, content |-> "review comment"]}

\* run_pr_review's initial_state
InitialState(repo_name, pr_number, pr_diff) ==
    [ repo_name |-> repo_name, pr_number |-> pr_number, pr_diff |-> pr_diff,
      review_result |-> None, patch_code |-> None, final_comment |-> None ]

NoState == InitialState("", 0, "")

\* a node's result: it raised, or the state with the node's update merged
\* in; `generated` lists the generation calls the node made
GenerationError == [type |-> "GenerationError", status_code |-> 0]
AttributeError == [type |-> "AttributeError", status_code |-> 0]

Raised(st, generated, error) ==
    [raised |-> TRUE, state |-> st, generated |-> generated, error |-> error]
Returned(st, generated) ==
    [raised |-> FALSE, state |-> st, generated |-> generated, error |-> NoError]

\* one generation call: the node that made it, the review result and patch
\* text it was given, and whether it raised
GenCall(node, review_result, patch_code, raised) ==
    [node |-> node, review_result |-> review_result, patch_code |-> patch_code,
     raised |-> raised]

\* a reviewer that swallows the exception of its generation call
reviewer_agent_swallowing(st, gen) ==
    Returned([st EXCEPT !.review_result = gen.result],
             <<GenCall("reviewer", None, "", gen.raised)>>)

\* the generation call raises; or it returns None and review_result.has_bugs
\* (line 59) raises AttributeError; or the node returns its update
reviewer_agent(st, gen) ==
    LET generated == <<GenCall("reviewer", None, "", gen.raised)>>
    IN  IF gen.raised
        THEN Raised(st, generated, GenerationError)
        ELSE IF IsNone(gen.result)
        THEN Raised(st, generated, AttributeError)
        ELSE Returned([st EXCEPT !.review_result = gen.result], generated)

\* a patcher that always takes its skip branch
patcher_agent_skipping(st, gen) ==
    Returned([st EXCEPT !.patch_code = None], <<>>)

patcher_agent(st, gen) ==
    LET review_result == st.review_result
    IN  IF IsNone(review_result) \/ ~Val(review_result).has_bugs
        THEN Returned([st EXCEPT !.patch_code = None], <<>>)
        ELSE LET generated == <<GenCall("patcher", review_result, "", gen.raised)>>
             IN  IF gen.raised
                 THEN Raised(st, generated, GenerationError)
                 ELSE Returned([st EXCEPT !.patch_code = Some(gen.content)],
                               generated)

\* the three characters that follow "LGTM " in the source file (U+00E2,
\* U+0153, U+2026), each written by its code point
Emoji == "U+00E2" \o "U+0153" \o "U+2026"

\* the f-string of the approved comment
ApprovedComment(summary) ==
    "## PR Review Result\n\nLGTM " \o Emoji \o "\n\n" \o summary
        \o "\n\nNo blocking issues found."

\* committer_agent up to its call of post_pr_comment: the comment it builds
\* (in `body`), or the exception of its generation call
committer_compose(st, gen) ==
    LET review_result == st.review_result
        patch_code == st.patch_code
    IN  IF IsSome(review_result) /\ ~Val(review_result).has_bugs
        THEN [raised |-> FALSE, body |-> ApprovedComment(Val(review_result).summary),
              generated |-> <<>>]
        ELSE LET generated ==
                   <<GenCall("committer", review_result,
                             IF TruthyStr(patch_code) THEN Val(patch_code) ELSE "N/A",
                             gen.raised)>>
             IN  IF gen.raised
                 THEN [raised |-> TRUE, body |-> "", generated |-> generated]
                 ELSE [raised |-> FALSE, body |-> gen.content, generated |-> generated]

\* a committer that swallows the exception of post_pr_comment
committer_finish_swallowing(st, final_comment, c) ==
    Returned([st EXCEPT !.final_comment = Some(final_comment)], <<>>)

\* committer_agent from the return of post_pr_comment on
committer_finish(st, final_comment, c) ==
    IF c.phase = "success"
    THEN Returned([st EXCEPT !.final_comment = Some(final_comment)], <<>>)
    ELSE Raised(st, <<>>, c.error)

\* the routing without the has_bugs test
route_after_review_any_result(st) ==
    IF IsSome(st.review_result) THEN "patcher" ELSE "committer"

_route_after_review(st) ==
    LET review_result == st.review_result
    IN  IF IsSome(review_result) /\ Val(review_result).has_bugs
        THEN "patcher"
        ELSE "committer"

\* the edges with the patcher wired to END
EdgePatcherToEnd(node, st) ==
    CASE node = "START" -> "reviewer"
      [] node = "reviewer" -> _route_after_review(st)
      [] node = "patcher" -> "END"
      [] node = "committer" -> "END"

\* the edges with the committer wired before the patcher
EdgeCommitterBeforePatcher(node, st) ==
    CASE node = "START" -> "reviewer"
      [] node = "reviewer" -> "committer"
      [] node = "committer" -> IF _route_after_review(st) = "patcher"
                               THEN "patcher" ELSE "END"
      [] node = "patcher" -> "END"

\* the edges build_graph adds: the node that follows `node`
Edge(node, st) ==
    CASE node = "START" -> "reviewer"
      [] node = "reviewer" -> _route_after_review(st)
      [] node = "patcher" -> "committer"
      [] node = "committer" -> "END"

\* where the task stands once `node` has returned
After(node, st) ==
    LET next == Edge(node, st)
    IN  IF next = "END" THEN "done" ELSE next

Failure(source, error) == [source |-> source, error |-> error]

\* the classes `except Exception` does not catch: BaseException itself and
\* the classes of builtins and asyncio that derive from it and not from
\* Exception (ExceptionGroup derives from Exception, BaseExceptionGroup
\* does not); every other class is an Exception
BaseExceptions ==
    {"BaseException", "BaseExceptionGroup", "CancelledError",
     "KeyboardInterrupt", "SystemExit", "GeneratorExit"}

\* an except clause for httpx.HTTPError alone
process_pr_catches_http_only(error) ==
    error.type \in {"HTTPStatusError", "TimeoutException", "NetworkError",
                    "RemoteProtocolError"}

\* process_pr's `except Exception`
process_pr_catches(error) == error.type \notin BaseExceptions

\* where the task stands once `error` was raised inside process_pr's try:
\* caught and logged, or propagated out of the task
TaskEnd(error) == IF process_pr_catches(error) THEN "failed" ELSE "crashed"

-----------------------------------------------------------------------------
(* Two runs side by side: each process_pr task has its own locals, its own  *)
(* GitHubClient and its own GraphState                                      *)

RunIds == {1, 2}

\* the pull requests of the two accepted events: same repository, two numbers
TwoRunTasks ==
    [i \in RunIds |-> [repo_name |-> "octo/repo", pr_number |-> 6 + i]]

\* one GraphState shared by all runs
StateOfShared(i) == 1

\* the GraphState a run works on: the dict its own run_pr_review built
StateOf(i) == i

\* the locals of a process_pr task before its first step
QueuedRun(t) ==
    [ task |-> t, pc |-> "queued", call |-> NoCall, body |-> None,
      target |-> None, gens |-> <<>>, runError |-> None ]

NoRun == [QueuedRun([repo_name |-> "", pr_number |-> 0]) EXCEPT !.pc = "idle"]

\* outcomes of an attempt when two runs are followed: 200, 404, 500 and a
\* timeout, no Retry-After header, the comment created iff the POST got 2xx
TwoRunOutcomes(method) ==
    { o \in Outcomes(method) :
        /\ o.retry_after = None
        /\ o.kind = "response" => o.status_code \in {200, 404, 500}
        /\ o.kind = "exception" => o.exc = "TimeoutException"
        /\ o.created <=> (method = "POST" /\ o.kind = "response"
                                           /\ Is2xx(o.status_code)) }

\* The steps of one run, on v = [run |-> its locals, state |-> its
\* GraphState]: the set of results of each step.

ProcessPrStep(cfg, v) ==
    IF v.run.pc = "queued"
    THEN {[v EXCEPT !.run.pc = "fetching", !.run.call = NewCall(cfg, "GET")]}
    ELSE {}

HttpAttemptStep(cfg, v) ==
    IF v.run.pc \in {"fetching", "posting"} /\ v.run.call.phase = "attempt"
    THEN {[v EXCEPT !.run.call = AttemptStep(cfg, v.run.call, o)] :
             o \in TwoRunOutcomes(v.run.call.method)}
    ELSE {}

BackoffElapsedStep(cfg, v) ==
    IF v.run.pc \in {"fetching", "posting"} /\ v.run.call.phase = "sleep"
    THEN {[v EXCEPT !.run.call = SleepStep(cfg, v.run.call)]}
    ELSE {}

DiffFetchedStep(cfg, v) ==
    IF v.run.pc = "fetching" /\ v.run.call.phase = "success"
    THEN LET st == InitialState(v.run.task.repo_name, v.run.task.pr_number, "diff")
         IN  {[run |-> [v.run EXCEPT !.pc = After("START", st), !.call = NoCall],
               state |-> st]}
    ELSE {}

DiffFailedStep(cfg, v) ==
    IF v.run.pc = "fetching" /\ v.run.call.phase = "failed"
    THEN {[v EXCEPT !.run.pc = TaskEnd(v.run.call.error),
                    !.run.runError = Some(Failure("get_pr_diff", v.run.call.error))]}
    ELSE {}

NodeDoneStep(v, node, source, res) ==
    LET error == res.error
    IN  [run |-> [v.run EXCEPT
                    !.gens = @ \o res.generated,
                    !.pc = IF res.raised THEN TaskEnd(error)
                                         ELSE After(node, res.state),
                    !.runError = IF res.raised THEN Some(Failure(source, error))
                                               ELSE @],
         state |-> res.state]

ReviewerStep(cfg, v) ==
    IF v.run.pc = "reviewer"
    THEN {NodeDoneStep(v, "reviewer", "reviewer", reviewer_agent(v.state, gen)) :
             gen \in ReviewGenerations}
    ELSE {}

PatcherStep(cfg, v) ==
    IF v.run.pc = "patcher"
    THEN {NodeDoneStep(v, "patcher", "patcher", patcher_agent(v.state, gen)) :
             gen \in PatchGenerations}
    ELSE {}

\* committer_agent up to its call of post_pr_comment, whose arguments are
\* state["repo_name"], state["pr_number"] and final_comment
CommitterStep(cfg, v) ==
    IF v.run.pc = "committer"
    THEN { LET res == committer_compose(v.state, gen)
           IN  IF res.raised
               THEN [v EXCEPT
                       !.run.gens = @ \o res.generated,
                       !.run.pc = TaskEnd(GenerationError),
                       !.run.runError = Some(Failure("committer", GenerationError))]
               ELSE [v EXCEPT
                       !.run.gens = @ \o res.generated,
                       !.run.body = Some(res.body),
                       !.run.target = Some([repo_name |-> v.state.repo_name,
                                            pr_number |-> v.state.pr_number]),
                       !.run.call = NewCall(cfg, "POST"),
                       !.run.pc = "posting"]
           : gen \in CommentGenerations }
    ELSE {}

PostedStep(cfg, v) ==
    IF v.run.pc = "posting" /\ v.run.call.phase \in {"success", "failed"}
    THEN {NodeDoneStep(v, "committer", "post_pr_comment",
                       committer_finish(v.state, Val(v.run.body), v.run.call))}
    ELSE {}

-----------------------------------------------------------------------------
(* The state machine *)

Init ==
    /\ settings \in SettingsSpace
    /\ handled = 0
    /\ req = None
    /\ response = "-"
    /\ task = None
    /\ pc = "idle"
    /\ call = NoCall
    /\ state = NoState
    /\ body = None
    /\ stages = <<>>
    /\ gens = <<>>
    /\ fetchCalls = 0
    /\ postCalls = 0
    /\ comments = 0
    /\ runError = None
    /\ runs = [i \in RunIds |-> NoRun]
    /\ graphStates = [i \in RunIds |-> NoState]
    /\ posted = {}

\* github_webhook answers a request; an accepted one adds the task
Webhook ==
    /\ UNCHANGED twoRunVars
    /\ pc = "idle"
    /\ handled < MaxRequests
    /\ \E r \in Requests(settings) :
          LET res == WebhookResult(settings, r)
          IN  /\ req' = Some(r)
              /\ response' = res.response
              /\ task' = res.task
              /\ pc' = IF IsSome(res.task) THEN "queued" ELSE "idle"
    /\ handled' = handled + 1
    /\ UNCHANGED <<settings, call, state, body, stages, gens, fetchCalls,
                   postCalls, comments, runError>>

\* process_pr starts and calls get_pr_diff
ProcessPr ==
    /\ UNCHANGED twoRunVars
    /\ pc = "queued"
    /\ pc' = "fetching"
    /\ fetchCalls' = fetchCalls + 1
    /\ call' = NewCall(settings, "GET")
    /\ UNCHANGED <<settings, handled, req, response, task, state, body, stages,
                   gens, postCalls, comments, runError>>

\* one HTTP attempt of the running logical call
HttpAttempt ==
    /\ UNCHANGED twoRunVars
    /\ pc \in {"fetching", "posting"}
    /\ call.phase = "attempt"
    /\ \E o \in Outcomes(call.method) :
          /\ call' = AttemptStep(settings, call, o)
          /\ comments' = IF o.created THEN comments + 1 ELSE comments
    /\ UNCHANGED <<settings, handled, req, response, task, pc, state, body,
                   stages, gens, fetchCalls, postCalls, runError>>

\* the backoff sleep of the running logical call elapses
BackoffElapsed ==
    /\ UNCHANGED twoRunVars
    /\ pc \in {"fetching", "posting"}
    /\ call.phase = "sleep"
    /\ call' = SleepStep(settings, call)
    /\ UNCHANGED <<settings, handled, req, response, task, pc, state, body,
                   stages, gens, fetchCalls, postCalls, comments, runError>>

\* get_pr_diff returned: run_pr_review builds the state and the graph starts
DiffFetched ==
    /\ UNCHANGED twoRunVars
    /\ pc = "fetching"
    /\ call.phase = "success"
    /\ state' = InitialState(Val(task).repo_name, Val(task).pr_number, "diff")
    /\ pc' = After("START", state')
    /\ call' = NoCall
    /\ UNCHANGED <<settings, handled, req, response, task, body, stages, gens,
                   fetchCalls, postCalls, comments, runError>>

\* get_pr_diff raised: process_pr catches and logs
DiffFailed ==
    /\ UNCHANGED twoRunVars
    /\ pc = "fetching"
    /\ call.phase = "failed"
    /\ pc' = TaskEnd(call.error)
    /\ runError' = Some(Failure("get_pr_diff", call.error))
    /\ UNCHANGED <<settings, handled, req, response, task, call, state, body,
                   stages, gens, fetchCalls, postCalls, comments>>

\* a node that raised ends the run in process_pr's except clause; one that
\* returned hands over to the node its edge names
NodeDone(node, source, res) ==
    /\ gens' = gens \o res.generated
    /\ state' = res.state
    /\ IF res.raised
       THEN /\ pc' = TaskEnd(res.error)
            /\ runError' = Some(Failure(source, res.error))
       ELSE /\ pc' = After(node, res.state)
            /\ UNCHANGED runError

Reviewer ==
    /\ UNCHANGED twoRunVars
    /\ pc = "reviewer"
    /\ stages' = Append(stages, "reviewer")
    /\ \E gen \in ReviewGenerations :
          NodeDone("reviewer", "reviewer", reviewer_agent(state, gen))
    /\ UNCHANGED <<settings, handled, req, response, task, call, body,
                   fetchCalls, postCalls, comments>>

Patcher ==
    /\ UNCHANGED twoRunVars
    /\ pc = "patcher"
    /\ stages' = Append(stages, "patcher")
    /\ \E gen \in PatchGenerations :
          NodeDone("patcher", "patcher", patcher_agent(state, gen))
    /\ UNCHANGED <<settings, handled, req, response, task, call, body,
                   fetchCalls, postCalls, comments>>

\* committer_agent builds the comment and calls post_pr_comment
Committer ==
    /\ UNCHANGED twoRunVars
    /\ pc = "committer"
    /\ stages' = Append(stages, "committer")
    /\ \E gen \in CommentGenerations :
          LET res == committer_compose(state, gen)
          IN  /\ gens' = gens \o res.generated
              /\ IF res.raised
                 THEN /\ pc' = TaskEnd(GenerationError)
                      /\ runError' = Some(Failure("committer", GenerationError))
                      /\ UNCHANGED <<body, postCalls, call>>
                 ELSE /\ body' = Some(res.body)
                      /\ postCalls' = postCalls + 1
                      /\ call' = NewCall(settings, "POST")
                      /\ pc' = "posting"
                      /\ UNCHANGED runError
    /\ UNCHANGED <<settings, handled, req, response, task, state, fetchCalls,
                   comments>>

\* post_pr_comment returned or raised: committer_agent ends
Posted ==
    /\ UNCHANGED twoRunVars
    /\ pc = "posting"
    /\ call.phase \in {"success", "failed"}
    /\ NodeDone("committer", "post_pr_comment",
                committer_finish(state, Val(body), call))
    /\ UNCHANGED <<settings, handled, req, response, task, call, body, stages,
                   fetchCalls, postCalls, comments>>

Next ==
    \/ Webhook
    \/ ProcessPr
    \/ HttpAttempt
    \/ BackoffElapsed
    \/ DiffFetched
    \/ DiffFailed
    \/ Reviewer
    \/ Patcher
    \/ Committer
    \/ Posted

Spec == Init /\ [][Next]_vars

\* every HTTP attempt and every generation call eventually returns or fails,
\* every sleep elapses, and the event loop runs the task it was given
Fairness ==
    /\ WF_vars(ProcessPr)
    /\ WF_vars(HttpAttempt)
    /\ WF_vars(BackoffElapsed)
    /\ WF_vars(DiffFetched)
    /\ WF_vars(DiffFailed)
    /\ WF_vars(Reviewer)
    /\ WF_vars(Patcher)
    /\ WF_vars(Committer)
    /\ WF_vars(Posted)

\* the states in which github_webhook has just accepted an "opened" event and
\* handed process_pr to the background tasks (the length of a sleep has no
\* part in termination: the backoff base is 1)
InitLive ==
    /\ settings \in {cfg \in SettingsSpace : cfg.github_retry_backoff_seconds = 1}
    /\ handled = 1
    /\ \E r \in Requests(settings) :
          LET res == WebhookResult(settings, r)
          IN  /\ IsSome(res.task)
              /\ r.payload.action = Some("opened")
              /\ req = Some(r)
              /\ response = res.response
              /\ task = res.task
    /\ pc = "queued"
    /\ call = NoCall
    /\ state = NoState
    /\ body = None
    /\ stages = <<>>
    /\ gens = <<>>
    /\ fetchCalls = 0
    /\ postCalls = 0
    /\ comments = 0
    /\ runError = None
    /\ runs = [i \in RunIds |-> NoRun]
    /\ graphStates = [i \in RunIds |-> NoState]
    /\ posted = {}

\* the steps of the background task
NextLive ==
    \/ ProcessPr
    \/ HttpAttempt
    \/ BackoffElapsed
    \/ DiffFetched
    \/ DiffFailed
    \/ Reviewer
    \/ Patcher
    \/ Committer
    \/ Posted

SpecLive == InitLive /\ [][NextLive]_vars /\ Fairness

\* the states in which github_webhook has accepted two events, for two pull
\* requests, and both process_pr tasks are waiting to start; the event
\* followed alone stays out
InitTwo ==
    /\ settings \in {cfg \in SettingsSpace :
                        /\ cfg.github_max_retries = TwoRunRetries
                        /\ cfg.github_retry_backoff_seconds = 1}
    /\ handled = 0
    /\ req = None
    /\ response = "-"
    /\ task = None
    /\ pc = "idle"
    /\ call = NoCall
    /\ state = NoState
    /\ body = None
    /\ stages = <<>>
    /\ gens = <<>>
    /\ fetchCalls = 0
    /\ postCalls = 0
    /\ comments = 0
    /\ runError = None
    /\ runs = [i \in RunIds |-> QueuedRun(TwoRunTasks[i])]
    /\ graphStates = [i \in RunIds |-> NoState]
    /\ posted = {}

\* run i as its steps see it
View(i) == [run |-> runs[i], state |-> graphStates[StateOf(i)]]

\* run i takes a step to v: its locals and its GraphState are written
Moves(i, v) ==
    /\ runs' = [runs EXCEPT ![i] = v.run]
    /\ graphStates' = [graphStates EXCEPT ![StateOf(i)] = v.state]
    /\ UNCHANGED <<settings, oneRunVars>>

ProcessPrOf(i) ==
    /\ \E v \in ProcessPrStep(settings, View(i)) : Moves(i, v)
    /\ UNCHANGED posted

\* one HTTP attempt of run i; a POST reaches the platform with the
\* arguments committer_agent gave post_pr_comment
HttpAttemptOf(i) ==
    /\ \E v \in HttpAttemptStep(settings, View(i)) : Moves(i, v)
    /\ posted' = IF runs[i].call.method = "POST"
                 THEN posted \cup {[by |-> i,
                                    repo_name |-> Val(runs[i].target).repo_name,
                                    pr_number |-> Val(runs[i].target).pr_number,
                                    body |-> Val(runs[i].body)]}
                 ELSE posted

BackoffElapsedOf(i) ==
    /\ \E v \in BackoffElapsedStep(settings, View(i)) : Moves(i, v)
    /\ UNCHANGED posted

DiffFetchedOf(i) ==
    /\ \E v \in DiffFetchedStep(settings, View(i)) : Moves(i, v)
    /\ UNCHANGED posted

DiffFailedOf(i) ==
    /\ \E v \in DiffFailedStep(settings, View(i)) : Moves(i, v)
    /\ UNCHANGED posted

ReviewerOf(i) ==
    /\ \E v \in ReviewerStep(settings, View(i)) : Moves(i, v)
    /\ UNCHANGED posted

PatcherOf(i) ==
    /\ \E v \in PatcherStep(settings, View(i)) : Moves(i, v)
    /\ UNCHANGED posted

CommitterOf(i) ==
    /\ \E v \in CommitterStep(settings, View(i)) : Moves(i, v)
    /\ UNCHANGED posted

PostedOf(i) ==
    /\ \E v \in PostedStep(settings, View(i)) : Moves(i, v)
    /\ UNCHANGED posted

\* the event loop runs one of the two tasks up to its next await
NextTwo ==
    \E i \in RunIds :
        \/ ProcessPrOf(i)
        \/ HttpAttemptOf(i)
        \/ BackoffElapsedOf(i)
        \/ DiffFetchedOf(i)
        \/ DiffFailedOf(i)
        \/ ReviewerOf(i)
        \/ PatcherOf(i)
        \/ CommitterOf(i)
        \/ PostedOf(i)

SpecTwo == InitTwo /\ [][NextTwo]_vars

TypeOK ==
    /\ settings \in SettingsSpace
    /\ handled \in 0..MaxRequests
    /\ pc \in {"idle", "queued", "fetching", "reviewer", "patcher", "committer",
               "posting", "done", "failed", "crashed"}
    /\ call.phase \in {"idle", "attempt", "sleep", "success", "failed"}
    /\ comments \in Nat /\ postCalls \in Nat /\ fetchCalls \in Nat

-----------------------------------------------------------------------------
(* Properties *)

R == settings.github_max_retries

LastIsResponse == call.last.kind = "response"
LastIsException == call.last.kind = "exception"

\* C1: retries of post_comment do not duplicate its side effect: in one run,
\* whatever the POST attempts end in (also one the platform carried out but
\* that ended for the client in a timeout, network error, 429 or 5xx), at
\* most one comment is created on the pull request.
C1_AtMostOneComment == comments <= 1

\* C2: when the first k <= R attempts of a logical call end in retryable
\* outcomes and attempt k+1 returns a 2xx, the call returns that response
\* after exactly k+1 attempts and goes on to no sleep or further attempt.
C2_RetrySuccess ==
    (LastIsResponse /\ Is2xx(call.last.status_code)) =>
        /\ call.phase = "success"
        /\ call.response = call.last
        /\ call.n_retryable <= R
        /\ call.n_attempts = call.n_retryable + 1

C2_Witness ==
    /\ call.phase = "success"
    /\ R >= 2
    /\ call.n_retryable = R
    /\ call.n_attempts = R + 1
    /\ IsSome(call.last_error)

\* C3: when all R+1 attempts of a logical call end in retryable outcomes, the
\* call fails after exactly R+1 attempts with the failure of the last one:
\* an HTTP status error carrying the last response's status, or the last
\* network/timeout exception itself.
C3_RetryExhaustion ==
    call.n_retryable >= R + 1 =>
        /\ call.phase = "failed"
        /\ call.n_attempts = R + 1
        /\ LastIsResponse => call.error = HTTPStatusError(call.last.status_code)
        /\ LastIsException => call.error = TransportError(call.last.exc)

\* C4: a response whose status is neither 2xx nor retryable (not 429, not
\* 5xx) fails the call at that attempt, first or later: no sleep follows it
\* and no further attempt is made.
C4_TerminalHttpError ==
    (/\ LastIsResponse
     /\ ~Is2xx(call.last.status_code)
     /\ call.last.status_code # 429
     /\ call.last.status_code \notin 500..599) =>
        /\ call.phase = "failed"
        /\ call.error = HTTPStatusError(call.last.status_code)
        /\ call.n_attempts = call.n_retryable + 1
        /\ call.n_sleeps = call.n_retryable

C4_Witness ==
    /\ call.phase = "failed"
    /\ call.last.status_code = 404
    /\ call.n_retryable >= 1
    /\ call.n_attempts <= R

\* C5: in every run post_pr_comment is invoked at most once, and in a run
\* that completes it is invoked exactly once.
C5_SingleDelivery ==
    /\ postCalls <= 1
    /\ pc = "done" => postCalls = 1

C5_Witness ==
    /\ pc = "done"
    /\ postCalls = 1
    /\ Val(state.review_result).has_bugs
    /\ call.n_attempts >= 2

GenNodes == [i \in 1..Len(gens) |-> gens[i].node]

CleanReview == IsSome(state.review_result) /\ ~Val(state.review_result).has_bugs
BuggyReview == IsSome(state.review_result) /\ Val(state.review_result).has_bugs

\* C6: in a run whose review yields has_bugs = false the patch stage is never
\* invoked, the only generation call of the run is the review's, and the
\* commit stage builds the approved comment from review_result.summary.
C6_CleanBranch ==
    CleanReview =>
        /\ Count(stages, "patcher") = 0
        /\ GenNodes = <<"reviewer">>
        /\ pc \in {"posting", "done", "failed"} =>
              /\ stages = <<"reviewer", "committer">>
              /\ body = Some("## PR Review Result\n\nLGTM U+00E2U+0153U+2026\n\n"
                              \o Val(state.review_result).summary
                              \o "\n\nNo blocking issues found.")

C6_Witness ==
    /\ CleanReview
    /\ pc = "done"
    /\ state.final_comment =
          Some("## PR Review Result\n\nLGTM U+00E2U+0153U+2026\n\nNo issues\n\nNo blocking issues found.")

\* C7: in a run whose review yields has_bugs = true and in which no stage
\* fails, the patch stage is invoked exactly once, the commit stage starts
\* with review_result and patch_text present, the run makes three generation
\* calls (review, patch, commit) and exactly one comment is posted.
C7_BuggyBranch ==
    (BuggyReview /\ pc = "done") =>
        /\ Count(stages, "patcher") = 1
        /\ stages = <<"reviewer", "patcher", "committer">>
        /\ IsSome(state.patch_code)
        /\ GenNodes = <<"reviewer", "patcher", "committer">>
        /\ gens[3].review_result = state.review_result
        /\ postCalls = 1
        /\ comments = 1

\* the part of C7 on routing and generation calls, without the count of
\* comments created
C7_BuggyBranchRouting ==
    (BuggyReview /\ pc = "done") =>
        /\ Count(stages, "patcher") = 1
        /\ stages = <<"reviewer", "patcher", "committer">>
        /\ IsSome(state.patch_code)
        /\ GenNodes = <<"reviewer", "patcher", "committer">>
        /\ gens[3].review_result = state.review_result
        /\ postCalls = 1

\* the request github_webhook accepted carries the signature of its payload
\* under the configured secret
SignatureValid(r) ==
    r.x_hub_signature_256 =
        Some(<<"sha256=", [ascii |-> TRUE,
                            key |-> settings.github_webhook_secret,
                            msg |-> r.payload]>>)

CoreStarted ==
    IsSome(task) \/ pc # "idle" \/ fetchCalls > 0 \/ Len(gens) > 0 \/ postCalls > 0

\* C8: the core (diff fetch, generation, comment post) is started for a
\* webhook request only if its signature verified and its action is "opened"
\* or "synchronize"; a request whose signature is invalid or missing is
\* answered 401 with nothing started, and one whose action is any other is
\* answered as ignored with nothing started.
C8_WebhookGate ==
    /\ CoreStarted =>
          /\ IsSome(req)
          /\ SignatureValid(Val(req))
          /\ Val(req).payload.action \in {Some("opened"), Some("synchronize")}
          /\ response = "Processing"
    /\ (IsSome(req) /\ ~SignatureValid(Val(req))) =>
          /\ response = "401 Invalid signature"
          /\ ~CoreStarted
    /\ (/\ IsSome(req)
        /\ SignatureValid(Val(req))
        /\ Val(req).payload.json
        /\ Val(req).payload.action \notin {Some("opened"), Some("synchronize")}) =>
          /\ response \in {"Ignored event", "Ignored action"}
          /\ ~CoreStarted

\* C9: when the generation call of a stage fails, the run makes no further
\* generation call (none for that stage, none for a later one), no later
\* stage runs, post_pr_comment is never invoked, final_comment stays absent
\* and the error ends the run as its fatal error.
C9_GenerationFailureFatal ==
    \A i \in 1..Len(gens) :
        gens[i].raised =>
            /\ i = Len(gens)
            /\ Count(GenNodes, gens[i].node) = 1
            /\ stages[Len(stages)] = gens[i].node
            /\ postCalls = 0
            /\ comments = 0
            /\ state.final_comment = None
            /\ pc = "failed"
            /\ runError = Some([source |-> gens[i].node,
                                 error |-> [type |-> "GenerationError",
                                            status_code |-> 0]])

C9_Witness ==
    /\ Len(gens) = 3
    /\ gens[3].raised
    /\ pc = "failed"

\* C10: a run ends in one of two ways: post_pr_comment returned and the run
\* completes with final_comment set to the posted body, or the run is
\* reported failed with final_comment absent; when post_pr_comment fails with
\* the retries exhausted the run is failed and final_comment is never set.
C10_NoPartialSuccess ==
    /\ pc = "done" =>
          /\ call.method = "POST" /\ call.phase = "success"
          /\ IsSome(body) /\ state.final_comment = body
          /\ runError = None
    /\ pc = "failed" =>
          /\ state.final_comment = None
          /\ IsSome(runError)
    /\ pc # "done" => state.final_comment = None
    /\ (call.method = "POST" /\ call.phase = "failed") =>
          /\ pc \in {"posting", "failed"}
          /\ pc = "failed" =>
                runError = Some([source |-> "post_pr_comment", error |-> call.error])

C10_Witness ==
    /\ pc = "failed"
    /\ call.method = "POST"
    /\ call.phase = "failed"
    /\ R >= 1
    /\ call.n_attempts = R + 1
    /\ comments = 0

\* C11: within a run the review stage runs first and the commit stage last,
\* the patch stage (when taken) runs after review has set review_result and
\* before commit starts, and no stage runs more than once.
C11_StageOrder ==
    /\ stages \in { <<>>, <<"reviewer">>, <<"reviewer", "committer">>,
                     <<"reviewer", "patcher">>,
                     <<"reviewer", "patcher", "committer">> }
    /\ Count(stages, "patcher") > 0 => IsSome(state.review_result)
    /\ Count(stages, "committer") > 0 => IsSome(state.review_result)
    /\ pc = "done" => stages[Len(stages)] = "committer"
    /\ pc \in {"reviewer", "patcher", "committer"} =>
          Count(stages, pc) = 0

C11_Witness ==
    /\ pc = "done"
    /\ stages = <<"reviewer", "patcher", "committer">>

\* the seconds an integer Retry-After header names (-1: the header is absent
\* or no integer)
HeaderSeconds(h) ==
    CASE h = Some(<<"1", "2">>) -> 12
      [] h = Some(<<"U+0663">>) -> 3
      [] OTHER -> -1

Base == settings.github_retry_backoff_seconds
Cap == settings.github_retry_max_backoff_seconds

\* min(base * 2^i, cap)
Expected(i) == IF Base * (2 ^ i) <= Cap THEN Base * (2 ^ i) ELSE Cap

\* C12: the delay computed for attempt i (0-based) that ends in a retryable
\* outcome without an integer Retry-After header is min(base * 2^i, cap);
\* these delays are non-decreasing in i and never exceed cap.
C12_BackoffDelay ==
    /\ (/\ call.n_attempts >= 1
        /\ RetryableOutcome(call.last)
        /\ HeaderSeconds(call.last.retry_after) < 0) =>
          /\ call.delay = Expected(call.n_attempts - 1)
          /\ call.delay <= Cap
    /\ \A i \in 0..R :
          /\ BackoffDelay(settings, i) = Expected(i)
          /\ BackoffDelay(settings, i) <= BackoffDelay(settings, i + 1)
          /\ BackoffDelay(settings, i) <= Cap

\* C13: a retryable response carrying an integer Retry-After header makes
\* the sleep before the next attempt last exactly that value; a later attempt
\* without the header sleeps min(base * 2^i, cap) again.
C13_RetryAfterOverride ==
    /\ [](/\ LastIsResponse
           /\ RetryableOutcome(call.last)
           /\ HeaderSeconds(call.last.retry_after) >= 0
           /\ call.phase \in {"sleep", "attempt"}
           => call.delay = HeaderSeconds(call.last.retry_after))
    /\ [][(/\ call.n_attempts >= 1
            /\ call'.n_attempts = call.n_attempts + 1
            /\ HeaderSeconds(call.last.retry_after) >= 0
            /\ RetryableOutcome(call'.last)
            /\ call'.last.retry_after = None)
           => call'.delay = Expected(call.n_attempts)]_vars

C13_Witness ==
    /\ call.phase = "sleep"
    /\ call.last.status_code = 500
    /\ call.last.retry_after = Some(<<"1", "2">>)
    /\ call.delay = 12
    /\ call.n_attempts = 2

\* C14: every fatal error of a run (diff fetch, generation, delivery) is
\* caught inside process_pr and never leaves the background task; the
\* "Processing" answer is given before the run starts; after a failed diff
\* fetch the workflow is never started.
C14_Containment ==
    /\ pc # "crashed"
    /\ IsSome(runError) => pc = "failed"
    /\ (call.phase = "failed" /\ pc \notin {"fetching", "posting"}) =>
          /\ pc = "failed"
          /\ IsSome(runError) /\ Val(runError).error = call.error
    /\ (\E i \in 1..Len(gens) : gens[i].raised) => pc = "failed"
    /\ pc # "idle" => response = "Processing"
    /\ (IsSome(runError) /\ Val(runError).source = "get_pr_diff") =>
          /\ stages = <<>>
          /\ gens = <<>>
          /\ postCalls = 0
          /\ comments = 0

C14_Witness ==
    /\ pc = "failed"
    /\ response = "Processing"
    /\ IsSome(runError)
    /\ Val(runError).source = "get_pr_diff"
    /\ Val(runError).error.type = "HTTPStatusError"

\* C16: in every state of a logical call the HTTP attempts made so far are
\* at most R + 1, whatever the mix of retryable statuses and timeout/network
\* errors: both are charged against the same counter.
C16_SharedBudget ==
    /\ call.n_attempts <= R + 1
    /\ call.n_retryable <= call.n_attempts
    /\ call.phase \in {"sleep", "attempt"} => call.n_attempts <= R
    /\ call.phase \in {"sleep", "attempt"} => call.n_retryable = call.n_attempts

C16_Witness ==
    /\ call.phase = "failed"
    /\ R >= 2
    /\ call.n_attempts = R + 1
    /\ call.n_retryable = R + 1
    /\ call.last_error = Some("NetworkError")
    /\ LastIsResponse
    /\ call.last.status_code = 500

\* C17: a logical call that makes n attempts sleeps exactly n - 1 times, once
\* between each pair of consecutive attempts and never after the final
\* attempt, whether it succeeds, fails terminally or exhausts the budget; the
\* backoff delays are strictly increasing while below the cap.
C17_BackoffPlacement ==
    /\ call.phase \in {"success", "failed"} =>
          call.n_sleeps = call.n_attempts - 1
    /\ call.phase = "sleep" => call.n_sleeps = call.n_attempts
    /\ call.phase = "attempt" => call.n_sleeps = call.n_attempts
    /\ \A i \in 0..R :
          BackoffDelay(settings, i + 1) < Cap =>
              BackoffDelay(settings, i) < BackoffDelay(settings, i + 1)

C17_Witness ==
    /\ R = 3
    /\ call.phase = "success"
    /\ call.last.status_code = 200
    /\ call.n_attempts = 4
    /\ call.n_retryable = 3
    /\ call.n_sleeps = 3
    /\ IsNone(call.last_error)

\* C19: patch_text is present only if review_result is present with
\* has_bugs = true; a patch stage entered through the routing makes its
\* generation call and sets patch_text (its skip branch is never taken), so
\* the decision that routed the run is never contradicted later.
C19_PatchTracksBranch ==
    /\ IsSome(state.patch_code) => BuggyReview
    /\ pc = "patcher" => BuggyReview
    /\ Count(stages, "patcher") > 0 =>
          /\ BuggyReview
          /\ Count(GenNodes, "patcher") = 1
    /\ (Count(stages, "patcher") > 0 /\ pc \in {"committer", "posting", "done"}) =>
          IsSome(state.patch_code)
    /\ \A i \in 1..Len(gens) :
          gens[i].node = "patcher" =>
              /\ gens[i].review_result = state.review_result
              /\ Val(gens[i].review_result).has_bugs

C19_Witness ==
    /\ pc = "committer"
    /\ stages = <<"reviewer", "patcher">>
    /\ state.patch_code = Some("patch proposal")
    /\ GenNodes = <<"reviewer", "patcher">>

EndsBy2xx ==
    /\ call.phase = "success"
    /\ LastIsResponse
    /\ Is2xx(call.last.status_code)
    /\ call.response.status_code = call.last.status_code

EndsByStatusError ==
    /\ call.phase = "failed"
    /\ LastIsResponse
    /\ call.error.type = "HTTPStatusError"
    /\ call.error.status_code = call.last.status_code

EndsByReraise ==
    /\ call.phase = "failed"
    /\ LastIsException
    /\ call.last.exc \in {"TimeoutException", "NetworkError"}
    /\ call.error.type = call.last.exc
    /\ call.n_attempts = R + 1

\* C20: a logical call ends only by returning a 2xx response,
\* raising an HTTP status error or re-raising a network/timeout exception,
\* and the statements after the loop are never reached.
C20_ThreeWaysToEnd ==
    /\ ~call.fell_through
    /\ call.phase \in {"success", "failed"} =>
          EndsBy2xx \/ EndsByStatusError \/ EndsByReraise

\* C18: if every HTTP attempt and generation call eventually returns or
\* fails and every sleep elapses, every logical call eventually reaches
\* SUCCESS or FAILED and every started run eventually ends completed or
\* fatally failed: no run stays forever in a non-terminal stage.
C18_Termination ==
    /\ (call.phase \in {"attempt", "sleep"}) ~>
          (call.phase \in {"success", "failed"})
    /\ (pc \in {"queued", "fetching", "reviewer", "patcher", "committer",
                "posting"}) ~> (pc \in {"done", "failed"})

C18_Witness ==
    /\ pc = "done"
    /\ fetchCalls = 1
    /\ postCalls = 1
    /\ call.phase = "success"
    /\ call.n_sleeps = R
    /\ R >= 1

\* run i on its own: its locals and the GraphState it owns
Own(i) == [run |-> runs[i], state |-> graphStates[i]]

\* the results a step of a run alone can have
AloneSuccessors(v) ==
    UNION { ProcessPrStep(settings, v), HttpAttemptStep(settings, v),
            BackoffElapsedStep(settings, v), DiffFetchedStep(settings, v),
            DiffFailedStep(settings, v), ReviewerStep(settings, v),
            PatcherStep(settings, v), CommitterStep(settings, v),
            PostedStep(settings, v) }

\* body is the comment run i derives from its own review_result and patch
OwnBody(i, b) ==
    LET rr == graphStates[i].review_result
    IN  /\ IsSome(rr)
        /\ IF ~Val(rr).has_bugs
           THEN b = "## PR Review Result\n\nLGTM U+00E2U+0153U+2026\n\n"
                      \o Val(rr).summary
                      \o "\n\nNo blocking issues found."
           ELSE /\ b = "review comment"
                /\ \E k \in 1..Len(runs[i].gens) :
                      /\ runs[i].gens[k].node = "committer"
                      /\ runs[i].gens[k].review_result = rr
                      /\ runs[i].gens[k].patch_code =
                            (IF graphStates[i].patch_code \in {None, Some("")}
                             THEN "N/A" ELSE Val(graphStates[i].patch_code))

\* C15: two runs for different pull requests, interleaved in any way at
\* their awaits: each posts only to its own (repo, number) a body derived
\* from its own review_result and patch text, a step of one run changes
\* nothing of the other, and each run moves as a run alone does, whatever
\* the other run does or fails at.
C15_Independence ==
    /\ [](\A p \in posted :
            /\ p.repo_name = TwoRunTasks[p.by].repo_name
            /\ p.pr_number = TwoRunTasks[p.by].pr_number
            /\ OwnBody(p.by, p.body))
    /\ [](\A i \in RunIds :
            runs[i].pc \in {"done", "failed"} =>
                (runs[i].pc = "done" <=> IsNone(runs[i].runError)))
    /\ [][\A i \in RunIds :
            Own(i)' # Own(i) =>
                /\ Own(i)' \in AloneSuccessors(Own(i))
                /\ \A j \in RunIds \ {i} : Own(j)' = Own(j)]_vars

C15_Witness ==
    /\ runs[1].pc = "done"
    /\ runs[2].pc = "failed"
    /\ Val(runs[2].runError).source = "post_pr_comment"
    /\ \E p, q \in posted :
          /\ p.by = 1 /\ p.pr_number = 7
          /\ q.by = 2 /\ q.pr_number = 8
          /\ p.body # q.body

====
